---- MODULE Spec2Model ----
(***************************************************************************)
(* State-machine model of src/DL-mpR/lecture_notes_gui.py: the Tk form,    *)
(* the "Generate" button, and the worker thread running process_pipeline   *)
(* (download -> transcribe -> summarize) against the file system.          *)
(*                                                                         *)
(* Strings are sequences of chunks (a chunk is a TLA+ string), so an       *)
(* f-string is a concatenation and "contains" is chunk membership.         *)
(* Emoji prefixes of the messages are left out of the chunks.              *)
(***************************************************************************)
EXTENDS Naturals, Sequences, FiniteSets, TLC

\* ------------------------------------------------------------------ bounds
MaxRuns == 2
MaxEdits == 2

\* ------------------------------------------------------------ input sets
\* Text typed in the URL entry: a sequence of characters.
Urls == { <<>>, <<" ">>, <<" ", "a", " ">> }
\* Values of the Whisper combobox (two of the five of line 68).
Sizes == { "base", "small" }
OllamaModels == { "llama3", "mistral" }
Folders == { "./", "out" }
\* Outputs of the backends.
Texts == { "t1" }
Responses == { "n1", "n2" }
Diags == { "e1" }

NoPath == <<>>
Unset == "unset"
UnsetUrl == <<"unset">>

VARIABLES
    youtube_url, model_size, ollama_model, output_folder,   \* tk.StringVar
    whisper_model,      \* None, or the size of the loaded model
    process_btn,        \* state of the button: "normal" | "disabled"
    progress,           \* TRUE while the progress bar is started
    status_label,       \* [text, foreground]
    log_text,           \* lines of the log widget
    notes_text,         \* content of the notes widget
    errorbox,           \* TRUE while start_processing shows its error box
    dirs,               \* directories that exist
    files,              \* path -> content, for the files that exist
    threads,            \* live worker threads: id -> locals of the thread
    WHISPER_AVAILABLE,  \* module global set at import
    runNo,              \* number of threads started so far
    edits               \* number of form edits made so far

vars == <<youtube_url, model_size, ollama_model, output_folder, whisper_model,
          process_btn, progress, status_label, log_text, notes_text, errorbox,
          dirs, files, threads, WHISPER_AVAILABLE, runNo, edits>>

None == "None"

\* ---------------------------------------------------------------- helpers
IsSpace(c) == c = " "

RECURSIVE lstrip(_)
lstrip(s) == IF s # <<>> /\ IsSpace(Head(s)) THEN lstrip(Tail(s)) ELSE s

RECURSIVE rstrip(_)
rstrip(s) ==
    IF s # <<>> /\ IsSpace(s[Len(s)]) THEN rstrip(SubSeq(s, 1, Len(s) - 1)) ELSE s

strip_identity(s) == s

\* str.strip()
strip(s) == rstrip(lstrip(s))

\* pathlib's output_dir / name
PathJoin(d, name) == <<d, name>>

Exists(p) == p \in DOMAIN files
Content(p) == IF Exists(p) THEN files[p] ELSE <<>>

AppendFile(old, data) == old \o <<data>>

\* open(path, "w") ... f.write(data): the file is truncated, then written
WriteFile(old, data) == <<data>>

FilesAfterWrite(p, data) ==
    [q \in DOMAIN files \cup {p} |->
        IF q = p THEN WriteFile(Content(p), data) ELSE files[q]]

\* status_label.config(text=message, foreground=color)
Status(message, color) == [text |-> message, foreground |-> color]

\* log_message: "[HH:MM:SS] message\n" (the clock value is not modelled)
LogLine(message) == <<"[", "HH:MM:SS", "] ">> \o message \o <<"\n">>

Ev(k, w) == [kind |-> k, what |-> w]

Live == DOMAIN threads
ModalOpen == errorbox \/ \E t \in Live : threads[t].pc \in {"ok_dialog", "err_dialog"}

\* --------------------------------------------------------------- __init__
Init ==
    /\ youtube_url = <<>>
    /\ model_size = "base"
    /\ ollama_model = "llama3"
    /\ output_folder = "./"
    /\ whisper_model = None
    /\ process_btn = "normal"
    /\ progress = FALSE
    /\ status_label = Status(<<"Ready to process">>, "green")
    /\ log_text = <<>>
    /\ notes_text = <<>>
    /\ errorbox = FALSE
    /\ dirs = {"./"}
    /\ files = <<>>
    /\ threads = <<>>
    /\ WHISPER_AVAILABLE \in BOOLEAN
    /\ runNo = 0
    /\ edits = 0

\* ------------------------------------------------------- the form (user)
CanEdit == ~ModalOpen /\ edits < MaxEdits

SetUrl ==
    /\ CanEdit
    /\ \E u \in Urls \ {youtube_url} : youtube_url' = u
    /\ edits' = edits + 1
    /\ UNCHANGED <<model_size, ollama_model, output_folder, whisper_model,
                   process_btn, progress, status_label, log_text, notes_text,
                   errorbox, dirs, files, threads, WHISPER_AVAILABLE, runNo>>

SetModelSize ==
    /\ CanEdit
    /\ \E s \in Sizes \ {model_size} : model_size' = s
    /\ edits' = edits + 1
    /\ UNCHANGED <<youtube_url, ollama_model, output_folder, whisper_model,
                   process_btn, progress, status_label, log_text, notes_text,
                   errorbox, dirs, files, threads, WHISPER_AVAILABLE, runNo>>

SetOllamaModel ==
    /\ CanEdit
    /\ \E m \in OllamaModels \ {ollama_model} : ollama_model' = m
    /\ edits' = edits + 1
    /\ UNCHANGED <<youtube_url, model_size, output_folder, whisper_model,
                   process_btn, progress, status_label, log_text, notes_text,
                   errorbox, dirs, files, threads, WHISPER_AVAILABLE, runNo>>

\* typing in the folder entry, or browse_folder picking a directory
SetOutputFolder ==
    /\ CanEdit
    /\ \E d \in Folders \ {output_folder} : output_folder' = d
    /\ edits' = edits + 1
    /\ UNCHANGED <<youtube_url, model_size, ollama_model, whisper_model,
                   process_btn, progress, status_label, log_text, notes_text,
                   errorbox, dirs, files, threads, WHISPER_AVAILABLE, runNo>>

\* ------------------------------------------------------ start_processing
\* Locals of a worker thread (lines 205-342) and, below "req", the record of
\* what the run was submitted with and what its stages actually used.
NewThread ==
    [ pc |-> "start",
      output_dir |-> Unset, audio_file |-> NoPath, transcript_file |-> NoPath,
      notes_file |-> NoPath, prompt |-> <<>>, error |-> <<>>,
      req |-> [ sourceUrl |-> youtube_url, modelSize |-> model_size,
                summarizerModel |-> ollama_model,
                outputDirectory |-> output_folder ],
      trace |-> <<>>,
      dl_url |-> UnsetUrl, dl_dir |-> Unset, ld_size |-> Unset,
      tr_model |-> Unset, tr_dir |-> Unset, gn_model |-> Unset,
      gn_dir |-> Unset, text |-> Unset, response |-> Unset,
      prev_transcript |-> <<>>, prev_notes |-> <<>>,
      cause |-> [stage |-> Unset, kind |-> Unset, diag |-> <<>>] ]

Spawn ==
    threads' = [u \in Live \cup {runNo + 1} |->
                    IF u = runNo + 1 THEN NewThread ELSE threads[u]]

start_processing_button_left_enabled ==
    IF strip(youtube_url) = <<>>
    THEN /\ errorbox' = TRUE
         /\ UNCHANGED <<process_btn, progress, threads, runNo>>
    ELSE /\ runNo < MaxRuns
         /\ progress' = TRUE
         /\ Spawn
         /\ runNo' = runNo + 1
         /\ UNCHANGED <<errorbox, process_btn>>

start_processing ==
    IF strip(youtube_url) = <<>>
    THEN /\ errorbox' = TRUE        \* messagebox.showerror, then return
         /\ UNCHANGED <<process_btn, progress, threads, runNo>>
    ELSE /\ runNo < MaxRuns
         /\ process_btn' = "disabled"
         /\ progress' = TRUE
         /\ Spawn
         /\ runNo' = runNo + 1
         /\ UNCHANGED errorbox

\* A click on the button runs its command unless the button is disabled.
ClickGenerate ==
    /\ ~ModalOpen
    /\ process_btn = "normal"
    /\ start_processing
    /\ UNCHANGED <<youtube_url, model_size, ollama_model, output_folder,
                   whisper_model, status_label, log_text, notes_text, dirs,
                   files, WHISPER_AVAILABLE, edits>>

DismissErrorBox ==
    /\ errorbox
    /\ errorbox' = FALSE
    /\ UNCHANGED <<youtube_url, model_size, ollama_model, output_folder,
                   whisper_model, process_btn, progress, status_label,
                   log_text, notes_text, dirs, files, threads,
                   WHISPER_AVAILABLE, runNo, edits>>

\* ------------------------------------------------------ process_pipeline
At(t, where) == t \in Live /\ threads[t].pc = where

Cause(stage, kind, diag) == [stage |-> stage, kind |-> kind, diag |-> diag]

\* except Exception as e (lines 230-233): status, log, error box
process_pipeline_except(t, th, log, msg) ==
    /\ status_label' = Status(<<"Error: ">> \o msg, "red")
    /\ log_text' = Append(log, LogLine(<<"Error: ">> \o msg))
    /\ threads' = [threads EXCEPT ![t] =
                     [th EXCEPT !.pc = "err_dialog", !.error = msg,
                                !.trace = Append(@, Ev("state", "Failed"))]]

process_pipeline_start_without_status(t) ==
    /\ At(t, "start")
    /\ LET d == output_folder
           th == [threads[t] EXCEPT !.output_dir = d]
       IN \E mk \in {"ok", "denied"} :
            IF d \in dirs \/ mk = "ok"
            THEN /\ dirs' = dirs \cup {d}
                 /\ threads' = [threads EXCEPT ![t] =
                                  [th EXCEPT !.pc = "dl_begin"]]
                 /\ UNCHANGED <<log_text, status_label>>
            ELSE /\ dirs' = dirs
                 /\ process_pipeline_except(t, th, log_text,
                        <<"[Errno 13] Permission denied: ", d>>)
    /\ UNCHANGED <<youtube_url, model_size, ollama_model, output_folder,
                   whisper_model, process_btn, progress, notes_text, errorbox,
                   files, WHISPER_AVAILABLE, runNo, edits>>

\* lines 208-212: read the folder, mkdir, status "Downloading audio..."
process_pipeline_start(t) ==
    /\ At(t, "start")
    /\ LET d == output_folder
           th == [threads[t] EXCEPT !.output_dir = d]
       IN \E mk \in {"ok", "denied"} :
            IF d \in dirs \/ mk = "ok"
            THEN /\ dirs' = dirs \cup {d}
                 /\ status_label' = Status(<<"Downloading audio...">>, "blue")
                 /\ threads' = [threads EXCEPT ![t] =
                                  [th EXCEPT !.pc = "dl_begin",
                                     !.trace = Append(@, Ev("state", "Downloading"))]]
                 /\ UNCHANGED log_text
            ELSE /\ dirs' = dirs
                 /\ process_pipeline_except(t, th, log_text,
                        <<"[Errno 13] Permission denied: ", d>>)
    /\ UNCHANGED <<youtube_url, model_size, ollama_model, output_folder,
                   whisper_model, process_btn, progress, notes_text, errorbox,
                   files, WHISPER_AVAILABLE, runNo, edits>>

\* ------------------------------------------------------- download_audio
\* lines 213, 242-245: the call, the audio path, the first log line
download_audio_begin(t) ==
    /\ At(t, "dl_begin")
    /\ threads' = [threads EXCEPT ![t] =
                     [@ EXCEPT !.pc = "dl_run",
                        !.audio_file = PathJoin(output_folder, "lecture_audio1.mp3"),
                        !.dl_dir = output_folder,
                        !.trace = Append(@, Ev("invoke", "download"))]]
    /\ log_text' = Append(log_text, LogLine(<<"Starting audio download...">>))
    /\ UNCHANGED <<youtube_url, model_size, ollama_model, output_folder,
                   whisper_model, process_btn, progress, status_label,
                   notes_text, errorbox, dirs, files, WHISPER_AVAILABLE,
                   runNo, edits>>

\* What running a tool can end in: exit 0, a non-zero exit with its stderr,
\* or no such executable.
ToolOutcomes ==
    {[kind |-> "ok", diag |-> ""], [kind |-> "missing", diag |-> ""]}
    \cup {[kind |-> "exit", diag |-> e] : e \in Diags}

download_audio_run_swallowing_failure(t) ==
    /\ At(t, "dl_run")
    /\ LET url == youtube_url
           th == [threads[t] EXCEPT !.dl_url = url]
       IN \E o \in ToolOutcomes :
            /\ (o.kind = "ok" => strip(url) # <<>>)
            /\ files' = IF o.kind = "ok"
                        THEN [q \in DOMAIN files \cup {th.audio_file} |->
                                IF q = th.audio_file THEN <<"mp3">> ELSE files[q]]
                        ELSE files
            /\ dirs' = IF o.kind = "ok" THEN dirs \cup {th.audio_file[1]} ELSE dirs
            /\ log_text' = Append(log_text,
                                  LogLine(<<"Audio downloaded successfully">>))
            /\ status_label' = Status(<<"Transcribing audio...">>, "blue")
            /\ threads' = [threads EXCEPT ![t] =
                  [th EXCEPT !.pc = "tr_begin",
                     !.trace = @ \o <<Ev(IF o.kind = "ok" THEN "ok" ELSE "fail",
                                         "download"),
                                      Ev("state", "Transcribing")>>]]
    /\ UNCHANGED <<youtube_url, model_size, ollama_model, output_folder,
                   whisper_model, process_btn, progress, notes_text, errorbox,
                   WHISPER_AVAILABLE, runNo, edits>>

\* lines 247-263 and 216: build the command from the URL field, run yt-dlp
download_audio_run(t) ==
    /\ At(t, "dl_run")
    /\ LET url == youtube_url
           th == [threads[t] EXCEPT !.dl_url = url]
           failed == [th EXCEPT !.trace = Append(@, Ev("fail", "download"))]
       IN \E o \in ToolOutcomes :
            /\ (o.kind = "ok" => strip(url) # <<>>)
            /\ CASE o.kind = "ok" ->
                    \* yt-dlp writes the audio file (and its directory)
                    /\ files' = [q \in DOMAIN files \cup {th.audio_file} |->
                                   IF q = th.audio_file THEN <<"mp3">> ELSE files[q]]
                    /\ dirs' = dirs \cup {th.audio_file[1]}
                    /\ log_text' = Append(log_text,
                                      LogLine(<<"Audio downloaded successfully">>))
                    /\ status_label' = Status(<<"Transcribing audio...">>, "blue")
                    /\ threads' = [threads EXCEPT ![t] =
                          [th EXCEPT !.pc = "tr_begin",
                             !.trace = @ \o <<Ev("ok", "download"),
                                              Ev("state", "Transcribing")>>]]
                 [] o.kind = "exit" ->
                    /\ UNCHANGED <<dirs, files>>
                    /\ process_pipeline_except(t,
                          [failed EXCEPT !.cause =
                              Cause("download", "exit", <<o.diag>>)],
                          log_text, <<"Failed to download audio: ", o.diag>>)
                 [] o.kind = "missing" ->
                    /\ UNCHANGED <<dirs, files>>
                    /\ process_pipeline_except(t,
                          [failed EXCEPT !.cause = Cause("download", "missing",
                              <<"yt-dlp not found. Please install it: pip install yt-dlp">>)],
                          log_text,
                          <<"yt-dlp not found. Please install it: pip install yt-dlp">>)
    /\ UNCHANGED <<youtube_url, model_size, ollama_model, output_folder,
                   whisper_model, process_btn, progress, notes_text, errorbox,
                   WHISPER_AVAILABLE, runNo, edits>>

\* ------------------------------------------------------ transcribe_audio
WHISPER_ERROR == "No module named 'whisper'"

ENOENT(path) == <<"[Errno 2] No such file or directory: ", path[1], path[2]>>

\* lines 217, 267-273: the call, the transcript path, the availability check
transcribe_audio_begin(t) ==
    /\ At(t, "tr_begin")
    /\ LET th == [threads[t] EXCEPT
                    !.transcript_file = PathJoin(output_folder, "transcript.txt"),
                    !.tr_dir = output_folder,
                    !.trace = Append(@, Ev("invoke", "transcribe"))]
       IN IF ~WHISPER_AVAILABLE
          THEN process_pipeline_except(t,
                  [th EXCEPT !.trace = Append(@, Ev("fail", "transcribe")),
                             !.cause = Cause("transcribe", "missing",
                                             <<WHISPER_ERROR>>)],
                  log_text, <<"Whisper not available: ", WHISPER_ERROR>>)
          ELSE /\ log_text' = Append(log_text,
                     LogLine(<<"Loading Whisper model (", model_size, ")...">>))
               /\ threads' = [threads EXCEPT ![t] = [th EXCEPT !.pc = "tr_load"]]
               /\ UNCHANGED status_label
    /\ UNCHANGED <<youtube_url, model_size, ollama_model, output_folder,
                   whisper_model, process_btn, progress, notes_text, errorbox,
                   dirs, files, WHISPER_AVAILABLE, runNo, edits>>

\* What a library call can end in: a value, or an exception with its text.
CallOutcomes(values) ==
    {[kind |-> "ok", val |-> v] : v \in values}
    \cup {[kind |-> "raise", val |-> e] : e \in Diags}

\* lines 275-280: load the model unless one is cached
transcribe_audio_load(t) ==
    /\ At(t, "tr_load")
    /\ LET th == threads[t]
       IN IF whisper_model = None
          THEN \E o \in CallOutcomes({model_size}) :
                 IF o.kind = "ok"
                 THEN /\ whisper_model' = o.val
                      /\ log_text' = Append(log_text,
                                        LogLine(<<"Transcribing audio...">>))
                      /\ threads' = [threads EXCEPT ![t] =
                            [th EXCEPT !.pc = "tr_run", !.ld_size = o.val]]
                      /\ UNCHANGED status_label
                 ELSE /\ UNCHANGED whisper_model
                      /\ process_pipeline_except(t,
                            [th EXCEPT !.ld_size = model_size,
                               !.trace = Append(@, Ev("fail", "transcribe")),
                               !.cause = Cause("transcribe", "raise", <<o.val>>)],
                            log_text, <<"Transcription failed: ", o.val>>)
          ELSE /\ log_text' = Append(log_text,
                                 LogLine(<<"Transcribing audio...">>))
               /\ threads' = [threads EXCEPT ![t] = [th EXCEPT !.pc = "tr_run"]]
               /\ UNCHANGED <<whisper_model, status_label>>
    /\ UNCHANGED <<youtube_url, model_size, ollama_model, output_folder,
                   process_btn, progress, notes_text, errorbox, dirs, files,
                   WHISPER_AVAILABLE, runNo, edits>>

\* lines 281-291 and 220: transcribe, write the transcript, next status
transcribe_audio_run(t) ==
    /\ At(t, "tr_run")
    /\ LET th == [threads[t] EXCEPT !.tr_model = whisper_model]
           p == th.transcript_file
       IN \E o \in CallOutcomes(Texts) :
            CASE o.kind = "raise" ->
                    /\ UNCHANGED files
                    /\ process_pipeline_except(t,
                          [th EXCEPT !.trace = Append(@, Ev("fail", "transcribe")),
                             !.cause = Cause("transcribe", "raise", <<o.val>>)],
                          log_text, <<"Transcription failed: ", o.val>>)
              [] o.kind = "ok" /\ p[1] \notin dirs ->
                    /\ UNCHANGED files
                    /\ process_pipeline_except(t,
                          [th EXCEPT !.text = o.val,
                             !.trace = Append(@, Ev("ok", "transcribe")),
                             !.cause = Cause("transcribe", "io", ENOENT(p))],
                          log_text, <<"Transcription failed: ">> \o ENOENT(p))
              [] o.kind = "ok" /\ p[1] \in dirs ->
                    /\ files' = FilesAfterWrite(p, o.val)
                    /\ log_text' = Append(log_text,
                                      LogLine(<<"Transcription completed">>))
                    /\ status_label' =
                          Status(<<"Generating lecture notes...">>, "blue")
                    /\ threads' = [threads EXCEPT ![t] =
                          [th EXCEPT !.pc = "gn_begin", !.text = o.val,
                             !.prev_transcript = Content(p),
                             !.trace = @ \o <<Ev("ok", "transcribe"),
                                              Ev("state", "Summarizing")>>]]
    /\ UNCHANGED <<youtube_url, model_size, ollama_model, output_folder,
                   whisper_model, process_btn, progress, notes_text, errorbox,
                   dirs, WHISPER_AVAILABLE, runNo, edits>>

\* -------------------------------------------------------- generate_notes
Template ==
    "You are an expert lecture note-taker. ... Transcript:\n"

\* lines 221, 295-310: the call, the notes path, read the transcript
generate_notes_begin(t) ==
    /\ At(t, "gn_begin")
    /\ LET th == [threads[t] EXCEPT
                    !.notes_file = PathJoin(output_folder, "lecture_notes.txt"),
                    !.gn_dir = output_folder,
                    !.trace = Append(@, Ev("invoke", "summarize"))]
           log == Append(log_text,
                         LogLine(<<"Generating lecture notes with Ollama...">>))
           p == th.transcript_file
       IN IF Exists(p)
          THEN /\ log_text' = log
               /\ threads' = [threads EXCEPT ![t] =
                     [th EXCEPT !.pc = "gn_run",
                                !.prompt = <<Template>> \o files[p]]]
               /\ UNCHANGED status_label
          ELSE process_pipeline_except(t,
                  [th EXCEPT !.trace = Append(@, Ev("fail", "summarize")),
                             !.cause = Cause("summarize", "io", ENOENT(p))],
                  log, ENOENT(p))
    /\ UNCHANGED <<youtube_url, model_size, ollama_model, output_folder,
                   whisper_model, process_btn, progress, notes_text, errorbox,
                   dirs, files, WHISPER_AVAILABLE, runNo, edits>>

OllamaOutcomes ==
    {[kind |-> "ok", out |-> r] : r \in Responses}
    \cup {[kind |-> "exit", out |-> e] : e \in Diags}
    \cup {[kind |-> "missing", out |-> ""]}

OllamaMissing ==
    <<"Ollama not found. Please install Ollama and ensure it's in your PATH">>

\* lines 312-342 and 223-228: run ollama, write and show the notes, report
generate_notes_run(t) ==
    /\ At(t, "gn_run")
    /\ LET th == [threads[t] EXCEPT !.gn_model = ollama_model]
           p == th.notes_file
           failed == [th EXCEPT !.trace = Append(@, Ev("fail", "summarize"))]
       IN \E o \in OllamaOutcomes :
            CASE o.kind = "missing" ->
                    /\ UNCHANGED <<files, notes_text>>
                    /\ process_pipeline_except(t,
                          [failed EXCEPT !.cause =
                              Cause("summarize", "missing", OllamaMissing)],
                          log_text, OllamaMissing)
              [] o.kind = "exit" ->
                    /\ UNCHANGED <<files, notes_text>>
                    /\ process_pipeline_except(t,
                          [failed EXCEPT !.cause =
                              Cause("summarize", "exit", <<o.out>>)],
                          log_text,
                          <<"Note generation failed: ", "Ollama error: ", o.out>>)
              [] o.kind = "ok" /\ p[1] \notin dirs ->
                    \* open() raises FileNotFoundError inside the try of 312
                    /\ UNCHANGED <<files, notes_text>>
                    /\ process_pipeline_except(t,
                          [th EXCEPT !.response = o.out,
                             !.trace = Append(@, Ev("ok", "summarize")),
                             !.cause = Cause("summarize", "io", ENOENT(p))],
                          log_text, OllamaMissing)
              [] o.kind = "ok" /\ p[1] \in dirs ->
                    /\ files' = FilesAfterWrite(p, o.out)
                    /\ notes_text' = <<o.out>>
                    /\ status_label' =
                          Status(<<"Process completed successfully!">>, "green")
                    /\ log_text' = log_text \o
                          << LogLine(<<"Lecture notes generated and displayed">>),
                             LogLine(<<"All files saved to: ", th.output_dir>>),
                             LogLine(<<"Notes are now displayed in the 'Generated Notes' tab">>) >>
                    /\ threads' = [threads EXCEPT ![t] =
                          [th EXCEPT !.pc = "ok_dialog", !.response = o.out,
                             !.prev_notes = Content(p),
                             !.trace = @ \o <<Ev("ok", "summarize"),
                                              Ev("state", "Completed")>>]]
    /\ UNCHANGED <<youtube_url, model_size, ollama_model, output_folder,
                   whisper_model, process_btn, progress, errorbox, dirs,
                   WHISPER_AVAILABLE, runNo, edits>>

\* ------------------------------------------------------------- finally
process_pipeline_finally_button_left_disabled(t) ==
    /\ t \in Live
    /\ threads[t].pc \in {"ok_dialog", "err_dialog"}
    /\ progress' = FALSE
    /\ threads' = [u \in Live \ {t} |-> threads[u]]
    /\ UNCHANGED <<youtube_url, model_size, ollama_model, output_folder,
                   whisper_model, process_btn, status_label, log_text,
                   notes_text, errorbox, dirs, files, WHISPER_AVAILABLE,
                   runNo, edits>>

\* The message box of 228 or 233 is closed; lines 235-238 run and the thread
\* ends.
process_pipeline_finally(t) ==
    /\ t \in Live
    /\ threads[t].pc \in {"ok_dialog", "err_dialog"}
    /\ progress' = FALSE
    /\ process_btn' = "normal"
    /\ threads' = [u \in Live \ {t} |-> threads[u]]
    /\ UNCHANGED <<youtube_url, model_size, ollama_model, output_folder,
                   whisper_model, status_label, log_text, notes_text, errorbox,
                   dirs, files, WHISPER_AVAILABLE, runNo, edits>>

\* ------------------------------------------------------- specification
Tids == 1..MaxRuns

Worker(t) ==
    \/ process_pipeline_start(t)
    \/ download_audio_begin(t)
    \/ download_audio_run(t)
    \/ transcribe_audio_begin(t)
    \/ transcribe_audio_load(t)
    \/ transcribe_audio_run(t)
    \/ generate_notes_begin(t)
    \/ generate_notes_run(t)
    \/ process_pipeline_finally(t)

Next ==
    \/ SetUrl
    \/ SetModelSize
    \/ SetOllamaModel
    \/ SetOutputFolder
    \/ ClickGenerate
    \/ DismissErrorBox
    \/ \E t \in Tids : Worker(t)

Spec == Init /\ [][Next]_vars

\* The worker thread is scheduled, its tools return, its message box is closed.
FairSpec == Spec /\ WF_vars(\E t \in Tids : Worker(t))

\* ------------------------------------------------- reading a run's trace
Idx(tr, e) == {i \in 1..Len(tr) : tr[i] = e}

\* every occurrence of b has an occurrence of a before it
Precedes(tr, a, b) == \A i \in Idx(tr, b) : \E j \in Idx(tr, a) : j < i

IsState(e) == e.kind = "state"
States(tr) == SelectSeq(tr, IsState)

IsPrefix(s, t) == Len(s) <= Len(t) /\ SubSeq(t, 1, Len(s)) = s

Contains(msg, part) ==
    \E i \in 0..(Len(msg) - Len(part)) : SubSeq(msg, i + 1, i + Len(part)) = part

Stages == <<"download", "transcribe", "summarize">>
StateOf == <<"Downloading", "Transcribing", "Summarizing">>
HappyPath ==
    <<Ev("state", "Downloading"), Ev("state", "Transcribing"),
      Ev("state", "Summarizing"), Ev("state", "Completed")>>
Terminal == {Ev("state", "Completed"), Ev("state", "Failed")}

IsBlank(url) == \A i \in 1..Len(url) : url[i] = " "

AllBackendsOk(tr) == \A k \in 1..3 : Idx(tr, Ev("ok", Stages[k])) # {}

\* ------------------------------------------------------------------- C1
\* C1: at most one worker thread is live in any reachable state, and while
\* one is live the button is disabled, so no click reaches start_processing
\* and no second run is started next to it.
C1_SingleFlight ==
    /\ Cardinality(Live) <= 1
    /\ (Live # {} => process_btn = "disabled" /\ progress)

\* a second run is active, after the first one has ended
C1_Witness == runNo = 2 /\ Live = {2} /\ threads[2].pc = "tr_run"

\* ------------------------------------------------------------------- C2
\* C2: in every run, transcribe is invoked only after download has
\* succeeded, summarize only after transcribe has succeeded, nothing is
\* invoked after a failure, and each stage is invoked at most once.
C2_SequentialAbort ==
    \A t \in Live :
        LET tr == threads[t].trace IN
        /\ Precedes(tr, Ev("ok", "download"), Ev("invoke", "transcribe"))
        /\ Precedes(tr, Ev("ok", "transcribe"), Ev("invoke", "summarize"))
        /\ \A i, j \in 1..Len(tr) :
              (tr[i].kind = "fail" /\ i < j) => tr[j].kind # "invoke"
        /\ \A k \in 1..3 : Cardinality(Idx(tr, Ev("invoke", Stages[k]))) <= 1

\* a run whose download failed has ended without invoking anything else
C2_Witness ==
    \E t \in Live :
        /\ threads[t].pc = "err_dialog"
        /\ threads[t].trace =
              <<Ev("state", "Downloading"), Ev("invoke", "download"),
                Ev("fail", "download"), Ev("state", "Failed")>>

\* ------------------------------------------------------------------- C3
\* C3: a run whose three backends all succeeded has passed through exactly
\* Downloading, Transcribing, Summarizing, Completed, and the notes file of
\* the requested directory and the displayed notes equal the summarizer's
\* output.
C3_SuccessCompletes ==
    \A t \in Live :
        AllBackendsOk(threads[t].trace) =>
            /\ States(threads[t].trace) = HappyPath
            /\ Content(PathJoin(threads[t].req.outputDirectory,
                                "lecture_notes.txt")) = <<threads[t].response>>
            /\ notes_text = <<threads[t].response>>

\* ------------------------------------------------------------------- C4
\* C4: while no run is active and the URL field is empty or only whitespace,
\* no step (a click on the button included) starts a thread, disables the
\* button, starts the progress bar, creates a directory or writes a file.
C4_BlankUrlRejected ==
    [][ (IsBlank(youtube_url) /\ Live = {}) =>
            /\ Live' = {}
            /\ runNo' = runNo
            /\ process_btn' = process_btn
            /\ progress' = progress
            /\ dirs' = dirs
            /\ files' = files ]_vars

\* a whitespace-only URL has just been rejected: the error box is open
C4_Witness ==
    /\ errorbox
    /\ youtube_url = <<" ">>
    /\ Live = {}
    /\ process_btn = "normal"
    /\ dirs = {"./"}

C6_RequestImmutable ==
    \A t \in Live :
        LET th == threads[t] IN
        /\ th.output_dir \in {Unset, th.req.outputDirectory}
        /\ th.dl_dir \in {Unset, th.req.outputDirectory}
        /\ th.tr_dir \in {Unset, th.req.outputDirectory}
        /\ th.gn_dir \in {Unset, th.req.outputDirectory}
        /\ th.dl_url \in {UnsetUrl, th.req.sourceUrl}
        /\ th.ld_size \in {Unset, th.req.modelSize}
        /\ th.gn_model \in {Unset, th.req.summarizerModel}

\* ------------------------------------------------------------------- C7
\* C7: the model a run transcribes with has the size the run requested.
\* Stated for the runs during which the size field still shows the requested
\* size, so that a violation is the cache's doing and not an edit's.
C7_ModelMatchesRequest ==
    \A t \in Live :
        (threads[t].tr_model # Unset /\ model_size = threads[t].req.modelSize)
            => threads[t].tr_model = threads[t].req.modelSize

\* ------------------------------------------------------------------- C8
\* C8: when a stage has failed, the status line and the last log line both
\* contain the stage's original diagnostic text, and for download and
\* summarize the message is the tool-missing hint exactly when the tool was
\* missing.
ToolMissingHints ==
    { <<"yt-dlp not found. Please install it: pip install yt-dlp">>,
      OllamaMissing }

C8_DiagnosticIntact ==
    \A t \in Live :
        LET th == threads[t] IN
        (th.pc = "err_dialog" /\ th.cause.stage # Unset) =>
            /\ status_label.foreground = "red"
            /\ Contains(status_label.text, th.cause.diag)
            /\ log_text # <<>>
            /\ Contains(log_text[Len(log_text)], th.cause.diag)
            /\ (th.cause.stage \in {"download", "summarize"} =>
                    (th.error \in ToolMissingHints <=> th.cause.kind = "missing"))

\* ------------------------------------------------------------------- C9
\* C9: the state events of a run come in stage order, each before its stage
\* is invoked and before anything of a later stage; a terminal event is the
\* last event of the run, there is exactly one once the run reports its
\* outcome, and a Failed one carries the failure message.
C9_EventOrder ==
    \A t \in Live :
        LET th == threads[t]
            tr == th.trace
            st == States(tr)
        IN
        /\ \/ IsPrefix(st, HappyPath)
           \/ /\ st # <<>>
              /\ st[Len(st)] = Ev("state", "Failed")
              /\ IsPrefix(SubSeq(st, 1, Len(st) - 1), SubSeq(HappyPath, 1, 3))
        /\ \A k \in 1..3 : \A i \in 1..Len(tr) :
              (tr[i].what = Stages[k]) =>
                  /\ \E j \in 1..(i - 1) : tr[j] = Ev("state", StateOf[k])
                  /\ \A j \in 1..Len(tr) :
                        (k < 3 /\ tr[j] = Ev("state", StateOf[IF k < 3 THEN k + 1 ELSE k]))
                            => i < j
        /\ \A i \in 1..Len(tr) : tr[i] \in Terminal => i = Len(tr)
        /\ th.pc \in {"ok_dialog", "err_dialog"} =>
              /\ tr # <<>>
              /\ tr[Len(tr)] \in Terminal
              /\ status_label.text # <<>>
        /\ th.pc = "err_dialog" =>
              /\ tr[Len(tr)] = Ev("state", "Failed")
              /\ status_label = Status(<<"Error: ">> \o th.error, "red")
        /\ th.pc = "ok_dialog" => tr[Len(tr)] = Ev("state", "Completed")

\* a run has failed in its last stage, after all three state events
C9_Witness ==
    \E t \in Live :
        /\ threads[t].pc = "err_dialog"
        /\ States(threads[t].trace) =
              SubSeq(HappyPath, 1, 3) \o <<Ev("state", "Failed")>>

\* ------------------------------------------------------------------ C10
\* C10: when a run has completed, the notes file it wrote holds exactly its
\* summarizer response and the transcript file exactly its transcription,
\* whatever the files held before; only the three fixed names are written.
C10_Overwrite ==
    /\ \A t \in Live :
          threads[t].pc = "ok_dialog" =>
              /\ Content(threads[t].notes_file) = <<threads[t].response>>
              /\ Content(threads[t].transcript_file) = <<threads[t].text>>
    /\ \A p \in DOMAIN files :
          p[2] \in {"lecture_audio1.mp3", "transcript.txt", "lecture_notes.txt"}

\* a second run has completed over files that held another response and
\* an earlier transcription
C10_Witness ==
    \E t \in Live :
        /\ threads[t].pc = "ok_dialog"
        /\ threads[t].prev_notes # <<>>
        /\ threads[t].prev_notes # <<threads[t].response>>
        /\ threads[t].prev_transcript # <<>>

====
